---- MODULE Spec2Model ----
(***************************************************************************)
(* The order cache of one poloniex client instance (src/js/poloniex.js),   *)
(* the exchange it talks to, and the asynchronous calls made on it.        *)
(*                                                                         *)
(* Every public operation is an async function.  A call is suspended at   *)
(* each await and other calls of the same instance may run in between, so *)
(* every operation is cut at the awaits that separate its reads and       *)
(* writes of this.orders from the exchange request it waits for.          *)
(*                                                                         *)
(* Quantities (rate, amount, cost) are integers counted in units of the   *)
(* exchange's decimal precision; side, type, timestamps, trades and fee   *)
(* of an order are left out: no operation on the cache branches on them.  *)
(* since and limit are always left undefined by the callers modelled.     *)
(***************************************************************************)
EXTENDS Integers, FiniteSets, Sequences, TLC

\* ---------------------------------------------------------------- bounds
MaxCalls == 3
MaxEvents == 1

\* the order numbers the exchange can hand out: one before the instance exists and
\* one in each of MaxCalls calls
Ids == 1..(MaxCalls + 1)
\* the rates and amounts callers place and move orders at (an order placed before
\* the instance exists is at rate 1, see Placed)
Prices == {2}
Amounts == {2}
Tasks == {"a", "b"}

\* JavaScript's undefined, for a string-valued and for a number-valued field
undefinedStr == "undefined"
undefinedNum == 0 - 1

\* ---------------------------------------------------------------- markets
\* this.markets_by_id after loadMarkets: native pair id "QUOTE_BASE" -> market
MarketIds == {"BTC_ETH", "BTC_LTC"}

markets_by_id ==
    [m \in MarketIds |->
        IF m = "BTC_ETH" THEN [id |-> m, symbol |-> "ETH/BTC"]
                         ELSE [id |-> m, symbol |-> "LTC/BTC"]]

Symbols == {markets_by_id[m].symbol : m \in MarketIds}

NoMarket == [id |-> undefinedStr, symbol |-> undefinedStr]

\* the statuses of an order
Statuses == {"open", "closed", "canceled"}

\* this.market (symbol)
market(symbol) == CHOOSE m \in {markets_by_id[i] : i \in MarketIds} : m.symbol = symbol

\* ---------------------------------------------------------------- state
VARIABLES
    orders,     \* this.orders: order id -> cached Order
    book,       \* the exchange: order number -> the order as the exchange holds it
    nextId,     \* the exchange: the next order number it hands out
    pc,         \* per call slot: the await the call is suspended at, or "idle"
    arg,        \* per call slot: the arguments of the call
    resp,       \* per call slot: what the exchange answered
    ret,        \* how the call that finished last ended
    served,     \* the slots holding an open-orders listing not yet applied, oldest first
    stale,      \* the slots whose listing is older than one already applied
    prev,       \* if the call that finished last was fetchOrders: the listing it applied,
                \* and whether the fetchOrders finished right before it applied the same
    cancelDone, \* ids whose cache entry was last written by a finished cancelOrder
    calls,      \* number of calls started
    events,     \* number of exchange-side events
    input,      \* the argument of the synchronous function under study
    output      \* what it returned or threw, once it has run

vars == <<orders, book, nextId, pc, arg, resp, ret, served, stale, prev,
          cancelDone, calls, events, input, output>>

\* no synchronous function is under study, or it has not run yet
NotRun == [ran |-> FALSE]

\* the steps of the order methods leave the function under study alone
orderStep == UNCHANGED <<input, output>>

NoArg == [id |-> 0, symbol |-> undefinedStr, amount |-> undefinedNum, price |-> undefinedNum]
NoResp == [error |-> "", list |-> {}, orderNumber |-> 0, orderNumbers |-> {},
           trades |-> FALSE]
NoRet == [op |-> "", raised |-> "", ids |-> {}]

\* The books of the account when the instance is constructed: empty, or holding
\* one order that was placed before (the order cache does not outlive an instance).
Placed ==
    {<<>>} \cup {<<[currencyPair |-> pair, rate |-> 1, amount |-> 2,
                    startingAmount |-> 2, pending |-> FALSE]>> : pair \in MarketIds}

Init ==
    /\ orders = <<>>
    /\ book \in Placed
    /\ nextId = Len(book) + 1
    /\ pc = [t \in Tasks |-> "idle"]
    /\ arg = [t \in Tasks |-> NoArg]
    /\ resp = [t \in Tasks |-> NoResp]
    /\ ret = NoRet
    /\ served = <<>>
    /\ stale = {}
    /\ prev = <<>>
    /\ cancelDone = {}
    /\ calls = 0
    /\ events = 0
    /\ input = NotRun
    /\ output = NotRun

\* ---------------------------------------------------------------- handleErrors
\* An error message is a sequence of text parts: a part is the text of a key of the
\* exceptions table or text that holds no key.  A key is a substring of a message
\* when it is one of its parts; a message equals a key when it is that part alone.
MaxParts == 2

\* this.exceptions['exact'], in the order of the table
exact ==
    << [key |-> "You may only place orders that reduce your position.",
        kind |-> "InvalidOrder"],
       [key |-> "Invalid order number, or you are not the person who placed the order.",
        kind |-> "OrderNotFound"],
       [key |-> "Permission denied", kind |-> "PermissionDenied"],
       [key |-> "Connection timed out. Please try again.", kind |-> "RequestTimeout"],
       [key |-> "Internal error. Please try again.", kind |-> "ExchangeNotAvailable"],
       [key |-> "Order not found, or you are not the person who placed it.",
        kind |-> "OrderNotFound"],
       [key |-> "Invalid API key/secret pair.", kind |-> "AuthenticationError"],
       [key |-> "Please do not make more than 8 API calls per second.",
        kind |-> "DDoSProtection"],
       [key |-> "Rate must be greater than zero.", kind |-> "InvalidOrder"] >>

\* this.exceptions['broad'], in the order of the table
broad ==
    << [key |-> "Total must be at least", kind |-> "InvalidOrder"],
       [key |-> "This account is frozen.", kind |-> "AccountSuspended"],
       [key |-> "Not enough", kind |-> "InsufficientFunds"],
       [key |-> "Nonce must be greater", kind |-> "InvalidNonce"],
       [key |-> "You have already called cancelOrder or moveOrder on this order.",
        kind |-> "CancelPending"],
       [key |-> "Amount must be at least", kind |-> "InvalidOrder"],
       [key |-> "is either completed or does not exist", kind |-> "InvalidOrder"] >>

keys(table) == {table[i].key : i \in DOMAIN table}

\* table[key], for a key of the table
lookup(table, key) == (CHOOSE e \in {table[i] : i \in DOMAIN table} : e.key = key).kind

\* Names every object literal inherits from Object.prototype: 'constructor' is the
\* function Object, 'toString' a function that is not a constructor.
ObjectPrototype == {"constructor", "toString"}

\* text the exchange puts around a key, and text that is no key at all
Fillers == {"Order 587957810791 ", " 0.0001.", "Unknown failure"}

Parts == keys(exact) \cup keys(broad) \cup ObjectPrototype \cup Fillers

Messages == UNION {[1..n -> Parts] : n \in 0..MaxParts}

\* the parsed bodies handleErrors is called with: undefined, an object without an
\* 'error' field, an object with one
Responses ==
    {[defined |-> FALSE, hasError |-> FALSE, error |-> <<>>],
     [defined |-> TRUE, hasError |-> FALSE, error |-> <<>>]}
        \cup {[defined |-> TRUE, hasError |-> TRUE, error |-> m] : m \in Messages}

\* string.indexOf (key) >= 0
contains(message, key) == \E i \in DOMAIN message : message[i] = key

\* this.findBroadlyMatchedKey (broad, string): the first key of the table, in table
\* order, that the string contains; undefined when there is none
findBroadlyMatchedKey(table, message) ==
    LET hits == {i \in DOMAIN table : contains(message, table[i].key)}
    IN  IF hits = {} THEN undefinedStr
        ELSE table[CHOOSE i \in hits : \A j \in hits : i <= j].key

\* nothing is thrown
Returned == [ran |-> TRUE, thrown |-> "", message |-> <<>>]

throw(kind, message) == [ran |-> TRUE, thrown |-> kind, message |-> message]

\* handleErrors (code, reason, url, method, headers, body, response).
\* `message in exact` holds for the keys of the table and for the names the table
\* inherits; `new exact[message] (message)` is then new Object (message), a String
\* object, or fails with TypeError because the function is not a constructor.
handleErrors(response) ==
    IF ~response.defined THEN Returned
    ELSE IF ~response.hasError THEN Returned
    ELSE LET message == response.error
             broadKey == findBroadlyMatchedKey(broad, message)
         IN  IF Len(message) = 1 /\ message[1] \in keys(exact)
             THEN throw(lookup(exact, message[1]), message)
             ELSE IF Len(message) = 1 /\ message[1] \in ObjectPrototype
             THEN IF message[1] = "constructor" THEN throw("String", message)
                                               ELSE throw("TypeError", <<>>)
             ELSE IF broadKey # undefinedStr
             THEN throw(lookup(broad, broadKey), message)
             ELSE throw("ExchangeError", message)

\* the order cache and the exchange as they are when no order method has run
Fresh ==
    /\ orders = <<>>
    /\ book = <<>>
    /\ nextId = 1
    /\ pc = [t \in Tasks |-> "idle"]
    /\ arg = [t \in Tasks |-> NoArg]
    /\ resp = [t \in Tasks |-> NoResp]
    /\ ret = NoRet
    /\ served = <<>>
    /\ stale = {}
    /\ prev = <<>>
    /\ cancelDone = {}
    /\ calls = 0
    /\ events = 0

\* a synchronous function touches neither the order cache nor the exchange
pureStep ==
    UNCHANGED <<orders, book, nextId, pc, arg, resp, ret, served, stale, prev,
                cancelDone, calls, events>>

InitErrors ==
    /\ Fresh
    /\ input \in Responses
    /\ output = NotRun

handleErrors_call ==
    /\ output = NotRun
    /\ output' = handleErrors(input)
    /\ UNCHANGED input
    /\ pureStep

NextErrors == handleErrors_call

SpecErrors == InitErrors /\ [][NextErrors]_vars

\* ---------------------------------------------------------------- numbers
\* A JavaScript number is a binary floating-point value: a sum or a difference is
\* rounded to the nearest value the format holds, ties to the even significand.
\* The format here has Precision significand bits instead of 53 and counts in
\* units of its smallest step, so the values it holds are naturals.
Precision == 3
MaxValue == 10

RECURSIVE ulp(_)
\* the distance between neighbouring values of the format at x
ulp(x) == IF x < 2^Precision THEN 1 ELSE 2 * ulp(x \div 2)

\* the value of the format nearest to the real number x
round(x) ==
    LET q == ulp(x)
        lo == (x \div q) * q
        r == x - lo
    IN  IF 2 * r < q THEN lo
        ELSE IF 2 * r > q THEN lo + q
        ELSE IF (x \div q) % 2 = 0 THEN lo ELSE lo + q

\* a + b and a - b as JavaScript computes them
fadd(a, b) == round(a + b)
fsub(a, b) == round(a - b)

\* the amounts an exchange reports
Floats == {round(x) : x \in 0..MaxValue}

\* ---------------------------------------------------------------- fetchBalance
\* raw currency ids of the exchanges; poloniex lists Stellar as STR
CurrencyIds == {"STR", "XLM"}

\* this.commonCurrencyCode (currency) with the commonCurrencies of poloniex
commonCurrencyCode(currency) == IF currency = "STR" THEN "XLM" ELSE currency

\* binance and cryptopia have neither id in their commonCurrencies
sameCurrencyCode(currency) == currency

MaxAssets == 2

\* The balances of a response in the order of its keys: per raw id two amounts,
\* (available, onOrders) at poloniex, (free, locked) at binance and
\* (Available, Total) at cryptopia, where Total includes Available.
BalanceEntries == [currency : CurrencyIds, a : Floats, b : Floats]

\* a response has one entry per raw id, so no more entries than there are ids
MaxEntries == IF MaxAssets < Cardinality(CurrencyIds) THEN MaxAssets
              ELSE Cardinality(CurrencyIds)

BalanceResponses ==
    {r \in UNION {[1..n -> BalanceEntries] : n \in 1..MaxEntries} :
        \A i, j \in DOMAIN r : i # j => r[i].currency # r[j].currency}

\* result after the loop over the entries: result[code] = account, a later raw id
\* of the same code overwrites an earlier one
accounts(entries) ==
    [c \in {entries[i].code : i \in DOMAIN entries} |->
        LET last == CHOOSE i \in DOMAIN entries :
                      /\ entries[i].code = c
                      /\ \A j \in DOMAIN entries : entries[j].code = c => j <= i
        IN  entries[last].account]

\* poloniex: total = this.sum (free, used)
poloniex_account(balance) ==
    [free |-> balance.a, used |-> balance.b, total |-> fadd(fadd(0, balance.a), balance.b)]

poloniex_fetchBalance(response) ==
    accounts([i \in DOMAIN response |->
                 [code |-> commonCurrencyCode(response[i].currency),
                  account |-> poloniex_account(response[i])]])

\* binance: total = this.sum (free, used)
binance_account(balance) ==
    [free |-> balance.a, used |-> balance.b, total |-> fadd(fadd(0, balance.a), balance.b)]

binance_fetchBalance(response) ==
    accounts([i \in DOMAIN response |->
                 [code |-> sameCurrencyCode(response[i].currency),
                  account |-> binance_account(response[i])]])

\* cryptopia: used = total - free
cryptopia_account(balance) ==
    [free |-> balance.a, used |-> fsub(balance.b, balance.a), total |-> balance.b]

cryptopia_fetchBalance(response) ==
    accounts([i \in DOMAIN response |->
                 [code |-> sameCurrencyCode(response[i].currency),
                  account |-> cryptopia_account(response[i])]])

InitBalance ==
    /\ Fresh
    /\ input \in [exchange : {"poloniex", "binance", "cryptopia"},
                  response : BalanceResponses]
    /\ input.exchange = "cryptopia" =>
          \A i \in DOMAIN input.response : input.response[i].a <= input.response[i].b
    /\ output = NotRun

poloniex_fetchBalance_call ==
    /\ output = NotRun
    /\ input.exchange = "poloniex"
    /\ output' = [ran |-> TRUE, result |-> poloniex_fetchBalance(input.response)]
    /\ UNCHANGED input
    /\ pureStep

binance_fetchBalance_call ==
    /\ output = NotRun
    /\ input.exchange = "binance"
    /\ output' = [ran |-> TRUE, result |-> binance_fetchBalance(input.response)]
    /\ UNCHANGED input
    /\ pureStep

cryptopia_fetchBalance_call ==
    /\ output = NotRun
    /\ input.exchange = "cryptopia"
    /\ output' = [ran |-> TRUE, result |-> cryptopia_fetchBalance(input.response)]
    /\ UNCHANGED input
    /\ pureStep

NextBalance ==
    \/ poloniex_fetchBalance_call
    \/ binance_fetchBalance_call
    \/ cryptopia_fetchBalance_call

SpecBalance == InitBalance /\ [][NextBalance]_vars

\* ---------------------------------------------------------------- fetchWalletBalance
Wallets == {"exchange", "margin", "lending"}

MaxLoans == 1

\* amounts of the available and complete balances, and of loan offers
WalletAmounts == {0, 3}
LoanAmounts == {7}

\* returnAvailableAccountBalances in the order fetchWalletBalance walks it:
\* one amount per wallet and raw currency id
AvailableEntries == [wallet : Wallets, currency : CurrencyIds, amount : WalletAmounts]

AvailableBalances ==
    {r \in UNION {[1..n -> AvailableEntries] : n \in 0..MaxAssets} :
        \A i, j \in DOMAIN r :
            i # j => r[i].wallet # r[j].wallet \/ r[i].currency # r[j].currency}

\* returnCompleteBalances: onOrders per raw currency id
CompleteEntries == [currency : CurrencyIds, onOrders : WalletAmounts]

CompleteBalances ==
    {r \in UNION {[1..n -> CompleteEntries] : n \in 0..MaxEntries} :
        \A i, j \in DOMAIN r : i # j => r[i].currency # r[j].currency}

\* returnOpenLoanOffers and the provided loans of returnActiveLoans
LoanEntries == [currency : CurrencyIds, amount : LoanAmounts]

LoanResponses == UNION {[1..n -> LoanEntries] : n \in 0..MaxLoans}

\* fetchOpenLoans () and parseOpenLoans: the offers under their currency codes
fetchOpenLoans(response) ==
    [i \in DOMAIN response |->
        [symbol |-> commonCurrencyCode(response[i].currency), amount |-> response[i].amount]]

\* fetchActiveLoans ()
fetchActiveLoans(response) ==
    [i \in DOMAIN response |->
        [symbol |-> commonCurrencyCode(response[i].currency), amount |-> response[i].amount]]

ZeroRecord == [available |-> 0, on_orders |-> 0, total |-> 0]

initSymbol(symbol, balances) ==
    IF symbol \in DOMAIN balances THEN balances
    ELSE [c \in DOMAIN balances \cup {symbol} |->
            IF c = symbol THEN [w \in Wallets |-> ZeroRecord] ELSE balances[c]]

RECURSIVE addAvailable(_, _)
\* //calc available
addAvailable(balances, available) ==
    IF available = <<>> THEN balances
    ELSE LET e == Head(available)
             currency == commonCurrencyCode(e.currency)
             b == initSymbol(currency, balances)
         IN  addAvailable([b EXCEPT ![currency][e.wallet].available = fadd(@, e.amount)],
                          Tail(available))

onOrders_kept(onOrders) == FALSE

\* if (onOrders === 0) return;
onOrders_skipped(onOrders) == onOrders = 0

RECURSIVE addOnOrders(_, _)
\* //calc on_orders in exchange
addOnOrders(balances, complete) ==
    IF complete = <<>> THEN balances
    ELSE LET e == Head(complete)
             currency == commonCurrencyCode(e.currency)
             b == initSymbol(currency, balances)
         IN  IF onOrders_skipped(e.onOrders) THEN addOnOrders(balances, Tail(complete))
             ELSE addOnOrders(
                      [b EXCEPT ![currency]["exchange"].on_orders = fadd(@, e.onOrders)],
                      Tail(complete))

RECURSIVE addLoans(_, _)
\* //calc on_orders in lending
addLoans(balances, loans) ==
    IF loans = <<>> THEN balances
    ELSE LET offer == Head(loans)
             b == initSymbol(offer.symbol, balances)
         IN  addLoans([b EXCEPT ![offer.symbol]["lending"].on_orders = fadd(@, offer.amount)],
                      Tail(loans))

calcTotal_available_only(balances) ==
    [symbol \in DOMAIN balances |->
        [wallet \in Wallets |->
            [balances[symbol][wallet] EXCEPT !.total = balances[symbol][wallet].available]]]

\* //calc total
calcTotal(balances) ==
    [symbol \in DOMAIN balances |->
        [wallet \in Wallets |->
            [balances[symbol][wallet] EXCEPT
                !.total = fadd(balances[symbol][wallet].available,
                               balances[symbol][wallet].on_orders)]]]

poloniex_fetchWalletBalance(available, complete, open_loans, active_loans) ==
    LET loans == fetchOpenLoans(open_loans) \o fetchActiveLoans(active_loans)
    IN  calcTotal(addLoans(addOnOrders(addAvailable(<<>>, available), complete), loans))

RECURSIVE binance_fetchWalletBalance_from(_, _)
binance_fetchWalletBalance_from(balances, account) ==
    IF account = <<>> THEN balances
    ELSE LET balance == Head(account)
             total == fadd(balance.a, balance.b)
             currency == sameCurrencyCode(balance.currency)
             b == initSymbol(currency, balances)
         IN  IF total = 0 THEN binance_fetchWalletBalance_from(balances, Tail(account))
             ELSE binance_fetchWalletBalance_from(
                      [b EXCEPT ![currency]["exchange"] =
                          [available |-> balance.a, on_orders |-> balance.b, total |-> total]],
                      Tail(account))

binance_fetchWalletBalance(response) == binance_fetchWalletBalance_from(<<>>, response)

InitWallet ==
    /\ Fresh
    /\ \/ input \in [exchange : {"poloniex"}, available : AvailableBalances,
                     complete : CompleteBalances, open_loans : LoanResponses,
                     active_loans : LoanResponses]
       \/ input \in [exchange : {"binance"}, response : BalanceResponses]
    /\ output = NotRun

poloniex_fetchWalletBalance_call ==
    /\ output = NotRun
    /\ input.exchange = "poloniex"
    /\ output' = [ran |-> TRUE,
                  result |-> poloniex_fetchWalletBalance(input.available, input.complete,
                                                         input.open_loans, input.active_loans)]
    /\ UNCHANGED input
    /\ pureStep

binance_fetchWalletBalance_call ==
    /\ output = NotRun
    /\ input.exchange = "binance"
    /\ output' = [ran |-> TRUE, result |-> binance_fetchWalletBalance(input.response)]
    /\ UNCHANGED input
    /\ pureStep

NextWallet ==
    \/ poloniex_fetchWalletBalance_call
    \/ binance_fetchWalletBalance_call

SpecWallet == InitWallet /\ [][NextWallet]_vars

\* ---------------------------------------------------------------- fetchWalletBalance (per-wallet maps)
\* The variant of src/unnamed/part_000: it first builds one map of amounts on
\* orders per wallet and then fills wallets[wallet][code].

\* a * b as JavaScript computes it
fmul(a, b) == round(a * b)

\* the unified symbols of open orders, 'BASE/QUOTE', as the two parts split ('/')
\* gives
WalletSymbols == {<<"XLM", "BTC">>}

OpenOrders == [side : {"buy", "sell"}, symbol : WalletSymbols, amount : {3}, price : {2}]

OpenOrderLists == UNION {[1..n -> OpenOrders] : n \in 0..MaxLoans}

\* on_orders[wallet][symbol] += amount, or = amount for a new symbol
add_on_orders(map, symbol, amount) ==
    IF symbol \in DOMAIN map THEN [map EXCEPT ![symbol] = fadd(@, amount)]
    ELSE [c \in DOMAIN map \cup {symbol} |-> IF c = symbol THEN amount ELSE map[c]]

RECURSIVE on_orders_exchange(_, _)
\* open_orders.forEach: a sell order holds its amount of the base currency, a buy
\* order amount * price of the quote currency
on_orders_exchange(map, open_orders) ==
    IF open_orders = <<>> THEN map
    ELSE LET order == Head(open_orders)
             symbol == IF order.side = "sell" THEN order.symbol[1] ELSE order.symbol[2]
             amount == IF order.side = "sell" THEN order.amount
                       ELSE fmul(order.amount, order.price)
         IN  on_orders_exchange(add_on_orders(map, symbol, amount), Tail(open_orders))

RECURSIVE on_orders_lending(_, _)
\* active_loans.forEach and open_loans.forEach
on_orders_lending(map, loans) ==
    IF loans = <<>> THEN map
    ELSE on_orders_lending(add_on_orders(map, Head(loans).symbol, Head(loans).amount),
                           Tail(loans))

\* fetchOpenLoans (symbol) called without a symbol: `undefined in response` is
\* false for a response keyed by currency ids, and no offer is returned
part_000_fetchOpenLoans(response) == <<>>

initWallet(wallet, symbolCode) ==
    IF symbolCode \in DOMAIN wallet THEN wallet
    ELSE [c \in DOMAIN wallet \cup {symbolCode} |->
            IF c = symbolCode THEN ZeroRecord ELSE wallet[c]]

RECURSIVE wallets_available(_, _)
\* Object.keys (available).forEach: available is assigned, total is added to
wallets_available(wallets, available) ==
    IF available = <<>> THEN wallets
    ELSE LET e == Head(available)
             symbolCode == commonCurrencyCode(e.currency)
             w == [wallets EXCEPT ![e.wallet] = initWallet(@, symbolCode)]
         IN  wallets_available(
                 [w EXCEPT ![e.wallet][symbolCode] =
                     [@ EXCEPT !.available = e.amount, !.total = fadd(@, e.amount)]],
                 Tail(available))

\* Object.keys (on_orders).forEach: the symbols of on_orders are currency codes
\* already, no two of them share a code, so each record is written once
wallets_on_orders(wallets, on_orders) ==
    [wallet \in Wallets |->
        [symbolCode \in DOMAIN wallets[wallet] \cup
                        {commonCurrencyCode(symbol) : symbol \in DOMAIN on_orders[wallet]} |->
            LET r == initWallet(wallets[wallet], symbolCode)[symbolCode]
            IN  IF \E symbol \in DOMAIN on_orders[wallet] :
                       commonCurrencyCode(symbol) = symbolCode
                THEN LET symbol == CHOOSE symbol \in DOMAIN on_orders[wallet] :
                                       commonCurrencyCode(symbol) = symbolCode
                     IN  [r EXCEPT !.on_orders = on_orders[wallet][symbol],
                                   !.total = fadd(@, on_orders[wallet][symbol])]
                ELSE r]]

part_000_fetchWalletBalance(available, open_orders, open_loans, active_loans) ==
    LET on_orders ==
            [wallet \in Wallets |->
                IF wallet = "exchange" THEN on_orders_exchange(<<>>, open_orders)
                ELSE IF wallet = "lending"
                     THEN on_orders_lending(
                              on_orders_lending(<<>>, fetchActiveLoans(active_loans)),
                              part_000_fetchOpenLoans(open_loans))
                     ELSE <<>>]
    IN  wallets_on_orders(wallets_available([wallet \in Wallets |-> <<>>], available),
                          on_orders)

InitWalletMaps ==
    /\ Fresh
    /\ input \in [available : AvailableBalances, open_orders : OpenOrderLists,
                  open_loans : LoanResponses, active_loans : LoanResponses]
    /\ output = NotRun

part_000_fetchWalletBalance_call ==
    /\ output = NotRun
    /\ output' = [ran |-> TRUE,
                  result |-> part_000_fetchWalletBalance(input.available, input.open_orders,
                                                         input.open_loans, input.active_loans)]
    /\ UNCHANGED input
    /\ pureStep

NextWalletMaps == part_000_fetchWalletBalance_call

SpecWalletMaps == InitWalletMaps /\ [][NextWalletMaps]_vars

\* ---------------------------------------------------------------- parseTrade
\* Amounts of a trade are whole units of the market's precision; a fee rate is a
\* number of quarters, so that amount * rate is a number of quarter units.
RateUnit == 4
TradeAmounts == {0, 3, 7}
FeeRates == {0 - 1, 0, 1, RateUnit}

\* currencyPair of a trade: a listed market, one the instance has not loaded
\* (among them the pair of Stellar under its raw id STR), or no such field
UnlistedPair == "BTC_XMR"
RenamedPair == "BTC_STR"
NoPair == undefinedStr
PairIds == MarketIds \cup {UnlistedPair, RenamedPair}
CurrencyPairs == PairIds \cup {NoPair}

\* id.split ('_'): [ quoteId, baseId ]
split(id) ==
    IF id = "BTC_ETH" THEN <<"BTC", "ETH">>
    ELSE IF id = "BTC_LTC" THEN <<"BTC", "LTC">>
    ELSE IF id = "BTC_STR" THEN <<"BTC", "STR">>
    ELSE <<"BTC", "XMR">>

\* base + '/' + quote
join(base, quote) ==
    IF quote # "BTC" THEN undefinedStr
    ELSE IF base = "ETH" THEN "ETH/BTC"
    ELSE IF base = "LTC" THEN "LTC/BTC"
    ELSE IF base = "XMR" THEN "XMR/BTC"
    ELSE IF base = "STR" THEN "STR/BTC"
    ELSE IF base = "XLM" THEN "XLM/BTC"
    ELSE undefinedStr

\* 'base' and 'quote' of a market as fetchMarkets sets them
market_base(m) == split(m.id)[2]
market_quote(m) == split(m.id)[1]

\* the market argument of parseTrade: a loaded market or undefined
TradeMarkets == {markets_by_id[m] : m \in MarketIds} \cup {NoMarket}

Trades == [type : {"buy", "sell"}, amount : TradeAmounts, total : TradeAmounts,
           hasFee : BOOLEAN, fee : FeeRates, currencyPair : CurrencyPairs]

\* this.feeToPrecision (symbol, fee): fee, here in quarter units, rounded to the
\* precision of the market
feeToPrecision(fee) == (2 * fee + RateUnit) \div (2 * RateUnit)

\* market and symbol after the lookup of trade['currencyPair']
resolve(trade, m) ==
    IF m = NoMarket /\ trade.currencyPair # NoPair
    THEN IF trade.currencyPair \in DOMAIN markets_by_id
         THEN [market |-> markets_by_id[trade.currencyPair], quote |-> undefinedStr,
               base |-> undefinedStr, symbol |-> undefinedStr]
         ELSE [market |-> NoMarket, quote |-> split(trade.currencyPair)[1],
               base |-> split(trade.currencyPair)[2],
               symbol |-> join(split(trade.currencyPair)[2], split(trade.currencyPair)[1])]
    ELSE [market |-> m, quote |-> undefinedStr, base |-> undefinedStr,
          symbol |-> undefinedStr]

\* parseTrade of src/js/poloniex.js: fee is a bare number, in quarter units here;
\* the result has no filled and no total
poloniex_parseTrade(trade, m) ==
    LET r == resolve(trade, m)
        symbol == IF r.market # NoMarket THEN r.market.symbol ELSE r.symbol
        feePer == trade.fee
        fee == IF trade.type = "buy" THEN trade.amount * feePer
               ELSE trade.total * feePer
    IN  [symbol |-> symbol, side |-> trade.type, amount |-> trade.amount,
         cost |-> trade.total,
         fee |-> IF trade.hasFee THEN [number |-> fee] ELSE [NaN |-> TRUE]]

\* parseTrade of src/unnamed/part_000
part_000_parseTrade(trade, m) ==
    LET r == resolve(trade, m)
        symbol == IF r.market # NoMarket THEN r.market.symbol ELSE r.symbol
        base == IF r.market # NoMarket THEN market_base(r.market) ELSE r.base
        quote == IF r.market # NoMarket THEN market_quote(r.market) ELSE r.quote
        rate == trade.fee
        feeAmount == IF trade.hasFee /\ trade.type = "buy"
                     THEN feeToPrecision(trade.amount * rate) ELSE 0
        feeCost == IF trade.hasFee /\ trade.type # "buy" /\ trade.total # undefinedNum
                   THEN feeToPrecision(trade.total * rate) ELSE 0
        filled == trade.amount - feeAmount
        cost == IF trade.total # undefinedNum THEN trade.total - feeCost ELSE trade.total
    IN  [symbol |-> symbol, side |-> trade.type, amount |-> trade.amount,
         cost |-> cost, total |-> trade.total, filled |-> filled,
         fee |-> IF trade.hasFee
                 THEN [rate |-> rate, cost |-> feeCost, amount |-> feeAmount,
                       currency |-> IF trade.type = "buy" THEN base ELSE quote]
                 ELSE [undefined |-> TRUE]]

InitTrade ==
    /\ Fresh
    /\ input \in [variant : {"poloniex", "part_000"}, trade : Trades, market : TradeMarkets]
    /\ output = NotRun

poloniex_parseTrade_call ==
    /\ output = NotRun
    /\ input.variant = "poloniex"
    /\ output' = [ran |-> TRUE, result |-> poloniex_parseTrade(input.trade, input.market)]
    /\ UNCHANGED input
    /\ pureStep

part_000_parseTrade_call ==
    /\ output = NotRun
    /\ input.variant = "part_000"
    /\ output' = [ran |-> TRUE, result |-> part_000_parseTrade(input.trade, input.market)]
    /\ UNCHANGED input
    /\ pureStep

NextTrade ==
    \/ poloniex_parseTrade_call
    \/ part_000_parseTrade_call

SpecTrade == InitTrade /\ [][NextTrade]_vars

\* ---------------------------------------------------------------- symbols of native pair ids
\* the symbol fetchMarkets gives a native pair id
fetchMarkets_symbol(id) ==
    join(commonCurrencyCode(split(id)[2]), commonCurrencyCode(split(id)[1]))

\* fetchTickers: the key of the ticker of id
fetchTickers_symbol(id) ==
    IF id \in DOMAIN markets_by_id THEN markets_by_id[id].symbol
    ELSE join(commonCurrencyCode(split(id)[2]), commonCurrencyCode(split(id)[1]))

\* fetchOrderBooks: the key of the order book of marketId
fetchOrderBooks_symbol(marketId) ==
    IF marketId \in DOMAIN markets_by_id THEN markets_by_id[marketId].symbol
    ELSE join(commonCurrencyCode(split(marketId)[2]), commonCurrencyCode(split(marketId)[1]))

\* fetchMyTrades without a symbol: the symbol of the trades listed under id
fetchMyTrades_symbol(id) ==
    IF id \in DOMAIN markets_by_id THEN markets_by_id[id].symbol
    ELSE join(commonCurrencyCode(split(id)[2]), commonCurrencyCode(split(id)[1]))

\* fetchOrderTrades: this.parseTrades (trades) calls parseTrade (trade) without a
\* market; the symbol of a trade with the given currencyPair
fetchOrderTrades_symbol(currencyPair) ==
    LET r == resolve([currencyPair |-> currencyPair], NoMarket)
    IN  IF r.market # NoMarket THEN r.market.symbol ELSE r.symbol

\* the places that resolve a symbol from a native pair id
Sites == {"fetchTickers", "fetchOrderBooks", "fetchMyTrades", "fetchOrderTrades"}

\* the native pair ids of one response
InitSymbols ==
    /\ Fresh
    /\ input \in [site : Sites, ids : SUBSET PairIds \ {{}}]
    /\ output = NotRun

fetchTickers_call ==
    /\ output = NotRun
    /\ input.site = "fetchTickers"
    /\ output' = [ran |-> TRUE, result |-> [id \in input.ids |-> fetchTickers_symbol(id)]]
    /\ UNCHANGED input
    /\ pureStep

fetchOrderBooks_call ==
    /\ output = NotRun
    /\ input.site = "fetchOrderBooks"
    /\ output' = [ran |-> TRUE, result |-> [id \in input.ids |-> fetchOrderBooks_symbol(id)]]
    /\ UNCHANGED input
    /\ pureStep

fetchMyTrades_call ==
    /\ output = NotRun
    /\ input.site = "fetchMyTrades"
    /\ output' = [ran |-> TRUE, result |-> [id \in input.ids |-> fetchMyTrades_symbol(id)]]
    /\ UNCHANGED input
    /\ pureStep

fetchOrderTrades_call ==
    /\ output = NotRun
    /\ input.site = "fetchOrderTrades"
    /\ output' = [ran |-> TRUE, result |-> [id \in input.ids |-> fetchOrderTrades_symbol(id)]]
    /\ UNCHANGED input
    /\ pureStep

NextSymbols ==
    \/ fetchTickers_call
    \/ fetchOrderBooks_call
    \/ fetchMyTrades_call
    \/ fetchOrderTrades_call

SpecSymbols == InitSymbols /\ [][NextSymbols]_vars

\* ---------------------------------------------------------------- parseTransaction
MaxTransactions == 2

\* amounts and fees of deposits and withdrawals; a payload can lack its fee
TransactionAmounts == {3, MaxValue}
TransactionFees == {0, 1, undefinedNum}

RawTransactions == [amount : TransactionAmounts, fee : TransactionFees]

TransactionLists == UNION {[1..n -> RawTransactions] : n \in 0..MaxTransactions}

\* response['deposits'][i]['type'] = 'deposit', and likewise 'withdrawal'
typed(transactions, type) ==
    [i \in DOMAIN transactions |->
        [amount |-> transactions[i].amount, fee |-> transactions[i].fee, type |-> type]]

amount_less_fee(type, amount, feeCost) == fsub(amount, feeCost)

\* poloniex withdrawal amount includes the fee
amount_net(type, amount, feeCost) ==
    IF type = "withdrawal" THEN fsub(amount, feeCost) ELSE amount

parseTransaction(transaction) ==
    LET feeCost == IF transaction.fee = undefinedNum THEN 0 ELSE transaction.fee
    IN  [info |-> transaction,
         amount |-> amount_net(transaction.type, transaction.amount, feeCost),
         type |-> transaction.type,
         fee |-> [cost |-> feeCost]]

parseTransactions(transactions) ==
    [i \in DOMAIN transactions |-> parseTransaction(transactions[i])]

\* fetchTransactions: the deposits, then the withdrawals (timestamps are left out,
\* and the sort by timestamp is stable)
fetchTransactions(response) ==
    LET withdrawals == parseTransactions(typed(response.withdrawals, "withdrawal"))
        deposits == parseTransactions(typed(response.deposits, "deposit"))
    IN  deposits \o withdrawals

InitTransactions ==
    /\ Fresh
    /\ input \in [deposits : TransactionLists, withdrawals : TransactionLists]
    /\ output = NotRun

fetchTransactions_call ==
    /\ output = NotRun
    /\ output' = [ran |-> TRUE, result |-> fetchTransactions(input)]
    /\ UNCHANGED input
    /\ pureStep

NextTransactions == fetchTransactions_call

SpecTransactions == InitTransactions /\ [][NextTransactions]_vars

\* ---------------------------------------------------------------- cryptopia fetchOrders
MaxCryptopiaOrders == 2

CryptopiaIds == 1..MaxCryptopiaOrders

\* an order as an earlier call of the instance cached it: placed for amount 2 at
\* rate 2, nothing of it filled while it is open
cached(id, status, symbol) ==
    [id |-> id, status |-> status, symbol |-> symbol, price |-> 2, amount |-> 2,
     cost |-> IF status = "closed" THEN 4 ELSE 0,
     filled |-> IF status = "closed" THEN 2 ELSE 0,
     remaining |-> IF status = "closed" THEN 0 ELSE 2]

\* this.orders of a cryptopia instance
CryptopiaCaches ==
    UNION {[ids -> Statuses \X Symbols] : ids \in SUBSET CryptopiaIds}

\* response['Data'] of GetOpenOrders, by OrderId: the market and what remains
CryptopiaListings ==
    UNION {[ids -> [Market : Symbols, Remaining : {1, 2}]] : ids \in SUBSET CryptopiaIds}

\* parseOrder of cryptopia for an entry of the listing, extended by status 'open'
cryptopia_parseOrder(id, entry, symbol) ==
    [id |-> id, status |-> "open",
     symbol |-> IF symbol # undefinedStr THEN symbol ELSE entry.Market,
     price |-> 2, amount |-> 2, cost |-> (2 - entry.Remaining) * 2,
     filled |-> 2 - entry.Remaining, remaining |-> entry.Remaining]

closed_whatever_symbol(symbol, order) == TRUE

\* if ((symbol === undefined) || (order['symbol'] === symbol))
closed_for(symbol, order) == symbol = undefinedStr \/ order.symbol = symbol

\* this.orders after the upsert loop and the reconcile loop
cryptopia_reconcile(cache, openOrders, symbol) ==
    [id \in DOMAIN cache \cup DOMAIN openOrders |->
        IF id \in DOMAIN openOrders THEN openOrders[id]
        ELSE IF cache[id].status = "open" /\ closed_for(symbol, cache[id])
             THEN [cache[id] EXCEPT !.status = "closed",
                                    !.cost = cache[id].amount * cache[id].price,
                                    !.filled = cache[id].amount, !.remaining = 0]
             ELSE cache[id]]

\* the cache and the ids of the orders returned (since and limit undefined)
cryptopia_fetchOrders(cache, listing, symbol) ==
    LET openOrders == [id \in DOMAIN listing |->
                          cryptopia_parseOrder(id, listing[id], symbol)]
        after == cryptopia_reconcile(cache, openOrders, symbol)
    IN  [orders |-> after,
         result |-> {id \in DOMAIN after :
                        symbol = undefinedStr \/ after[id].symbol = symbol}]

\* the exchange lists the open orders of the market asked for, an order it lists
\* is on the market the cache has it on
InitCryptopia ==
    /\ Fresh
    /\ \E c \in CryptopiaCaches, listing \in CryptopiaListings,
          symbol \in Symbols \cup {undefinedStr} :
          /\ \A id \in DOMAIN listing :
                /\ symbol # undefinedStr => listing[id].Market = symbol
                /\ id \in DOMAIN c => listing[id].Market = c[id][2]
          /\ input = [cache |-> [id \in DOMAIN c |-> cached(id, c[id][1], c[id][2])],
                      listing |-> listing, symbol |-> symbol]
    /\ output = NotRun

cryptopia_fetchOrders_call ==
    /\ output = NotRun
    /\ output' = [ran |-> TRUE,
                  result |-> cryptopia_fetchOrders(input.cache, input.listing, input.symbol)]
    /\ UNCHANGED input
    /\ pureStep

NextCryptopia == cryptopia_fetchOrders_call

SpecCryptopia == InitCryptopia /\ [][NextCryptopia]_vars

\* ---------------------------------------------------------------- binance fetchOHLCV
\* The exchange holds one candle at each of the timestamps 1..last; a candle is
\* modelled by its timestamp, ohlcv[0].
MaxCandles == 3
MaxLimit == 3

RECURSIVE range(_, _)
\* the timestamps from..to in ascending order
range(from, to) == IF from > to THEN <<>> ELSE <<from>> \o range(from + 1, to)

\* v3publicGetKlines with startTime and limit: the candles from startTime on, at
\* most limit of them
klines(last, startTime, limit) ==
    LET to == IF startTime + limit - 1 < last THEN startTime + limit - 1 ELSE last
    IN  range(startTime, to)

\* fetchOHLCVMAX; parseOHLCVs keeps the candles from since on, at most limit
fetchOHLCVMAX(last, since, limit) == klines(last, since, limit)

InitOHLCV ==
    /\ Fresh
    /\ input \in [since : 1..(MaxCandles + 1), limit : 1..MaxLimit, last : 0..MaxCandles]
    /\ output = NotRun

\* fetchOHLCV up to the loop: let candles = [[since]]
fetchOHLCV_call ==
    /\ output = NotRun
    /\ output' = [ran |-> TRUE, pc |-> "while", candles |-> <<input.since>>,
                  tmpCandles |-> <<>>]
    /\ UNCHANGED input
    /\ pureStep

\* while (candles.length < limit): the page request is sent and awaited
fetchOHLCV_page ==
    /\ output # NotRun
    /\ output.pc = "while"
    /\ Len(output.candles) < input.limit
    /\ output' = [output EXCEPT
                     !.pc = "await",
                     !.tmpCandles =
                        fetchOHLCVMAX(input.last, output.candles[Len(output.candles)],
                                      input.limit - Len(output.candles) + 2)]
    /\ UNCHANGED input
    /\ pureStep

\* candles = candles.concat (tmpCandles), and back to the loop test
fetchOHLCV_concat ==
    /\ output # NotRun
    /\ output.pc = "await"
    /\ output' = [output EXCEPT !.pc = "while",
                                !.candles = output.candles \o output.tmpCandles,
                                !.tmpCandles = <<>>]
    /\ UNCHANGED input
    /\ pureStep

\* candles.splice (0, 1); return candles
fetchOHLCV_return ==
    /\ output # NotRun
    /\ output.pc = "while"
    /\ ~(Len(output.candles) < input.limit)
    /\ output' = [output EXCEPT !.pc = "returned", !.candles = Tail(output.candles)]
    /\ UNCHANGED input
    /\ pureStep

NextOHLCV ==
    \/ fetchOHLCV_call
    \/ fetchOHLCV_page
    \/ fetchOHLCV_concat
    \/ fetchOHLCV_return

\* the call is made, every request is answered and the function goes on running
SpecOHLCV == InitOHLCV /\ [][NextOHLCV]_vars /\ WF_vars(NextOHLCV)

\* ---------------------------------------------------------------- helpers
\* this.extend (a, b): a shallow copy of a with the keys of b written over it
extend(a, b) ==
    [k \in (DOMAIN a) \cup (DOMAIN b) |-> IF k \in DOMAIN b THEN b[k] ELSE a[k]]

\* this.orders[id] = order
put(cache, id, order) ==
    [k \in (DOMAIN cache) \cup {id} |-> IF k = id THEN order ELSE cache[k]]

\* this.orders[id]['status'] = status, for the ids that are cached
mark(cache, ids, status) ==
    [k \in DOMAIN cache |->
        IF k \in ids THEN [cache[k] EXCEPT !.status = status] ELSE cache[k]]

\* ---------------------------------------------------------------- parsing
\* A raw order as parseOrder receives it; a key the payload lacks is undefined.
NoOrder ==
    [orderNumber |-> undefinedNum, status |-> undefinedStr, currencyPair |-> undefinedStr,
     price |-> undefinedNum, rate |-> undefinedNum, amount |-> undefinedNum,
     startingAmount |-> undefinedNum, resultingTrades |-> FALSE]

\* a product of two JavaScript numbers, NaN (kept as undefined) when one is missing
times(a, b) == IF a = undefinedNum \/ b = undefinedNum THEN undefinedNum ELSE a * b

parseOrderStatus(status) ==
    IF status \in {"Open", "Partially filled"} THEN "open" ELSE status

\* parseOrder (order, market); resultingTrades, when present, is an empty list
parseOrder(order, mkt) ==
    LET marketId == order.currencyPair
        m == IF marketId \in MarketIds THEN markets_by_id[marketId] ELSE mkt
        symbol == IF m # NoMarket THEN m.symbol ELSE undefinedStr
        price == IF order.price # undefinedNum THEN order.price ELSE order.rate
        remaining == order.amount
        amount == IF order.startingAmount # undefinedNum THEN order.startingAmount
                                                          ELSE remaining
        known == amount # undefinedNum /\ remaining # undefinedNum
        filled == IF known THEN amount - remaining
                  ELSE IF order.resultingTrades THEN 0 ELSE undefinedNum
        cost == IF known /\ price # undefinedNum THEN filled * price ELSE 0
    IN  [id |-> order.orderNumber,
         status |-> parseOrderStatus(order.status),
         symbol |-> symbol,
         price |-> price,
         cost |-> cost,
         amount |-> amount,
         filled |-> filled,
         remaining |-> remaining]

\* variant of extended: the entry is parsed as the exchange sent it, its status not
\* set to 'open'
extended_as_sent(w) ==
    extend(NoOrder,
           [orderNumber |-> w.orderNumber, rate |-> w.rate, amount |-> w.amount,
            startingAmount |-> w.startingAmount, price |-> w.rate])

\* One entry of the open-orders listing as parseOpenOrders hands it to parseOrder.
\* In the listing the pair is the key the entry is filed under, not a field of it.
extended(w) ==
    extend(NoOrder,
           [orderNumber |-> w.orderNumber, rate |-> w.rate, amount |-> w.amount,
            startingAmount |-> w.startingAmount, status |-> "open", price |-> w.rate])

\* parseOpenOrders over the whole response, indexed by id (indexBy (openOrders, 'id')):
\* with a symbol the one market of the call, without one the market of each key
parseOpenOrders(list, symbol) ==
    [id \in {w.orderNumber : w \in list} |->
        LET w == CHOOSE x \in list : x.orderNumber = id
            m == IF symbol # undefinedStr THEN market(symbol)
                 ELSE IF w.currencyPair \in MarketIds THEN markets_by_id[w.currencyPair]
                 ELSE NoMarket
        IN  parseOrder(extended(w), m)]

\* ---------------------------------------------------------------- exchange
\* returnOpenOrders: the orders the exchange shows as open, for one pair or 'all'.
\* An order with a cancel pending is not shown (comment at cancelOrder).
returnOpenOrders(pair) ==
    {[orderNumber |-> id, currencyPair |-> book[id].currencyPair, rate |-> book[id].rate,
      amount |-> book[id].amount, startingAmount |-> book[id].startingAmount] :
        id \in {i \in DOMAIN book :
                  /\ ~book[i].pending
                  /\ (pair = "all" \/ book[i].currencyPair = pair)}}

remove(f, ids) == [k \in (DOMAIN f) \ ids |-> f[k]]

\* ---------------------------------------------------------------- fetchOrders
\* variant of closeOrder: the cost the cached order had is kept
closeOrder_cost_kept(order) ==
    extend(order, [status |-> "closed", filled |-> order.amount, remaining |-> 0])

\* the order a cached open order becomes when the listing no longer shows it
closeOrder(order) ==
    LET o == extend(order, [status |-> "closed", cost |-> undefinedNum,
                            filled |-> order.amount, remaining |-> 0])
    IN  IF o.cost = undefinedNum /\ o.filled # undefinedNum
        THEN [o EXCEPT !.cost = times(o.filled, o.price)]
        ELSE o

\* variant of reconcile: an order that is neither listed nor open is dropped
reconcile_dropping(cache, openOrders) ==
    LET upserted == [k \in (DOMAIN cache) \cup (DOMAIN openOrders) |->
                        IF k \in DOMAIN openOrders THEN openOrders[k] ELSE cache[k]]
        kept == {id \in DOMAIN upserted :
                    id \in DOMAIN openOrders \/ upserted[id].status = "open"}
    IN  [id \in kept |->
            IF id \in DOMAIN openOrders
            THEN extend(upserted[id], openOrders[id])
            ELSE closeOrder(upserted[id])]

\* variant of reconcile: every order that is not listed is closed, whatever its status
reconcile_closing(cache, openOrders) ==
    LET upserted == [k \in (DOMAIN cache) \cup (DOMAIN openOrders) |->
                        IF k \in DOMAIN openOrders THEN openOrders[k] ELSE cache[k]]
    IN  [id \in DOMAIN upserted |->
            IF id \in DOMAIN openOrders
            THEN extend(upserted[id], openOrders[id])
            ELSE closeOrder(upserted[id])]

\* the cache after the upsert loop and the reconcile loop of fetchOrders
reconcile(cache, openOrders) ==
    LET upserted == [k \in (DOMAIN cache) \cup (DOMAIN openOrders) |->
                        IF k \in DOMAIN openOrders THEN openOrders[k] ELSE cache[k]]
    IN  [id \in DOMAIN upserted |->
            IF id \in DOMAIN openOrders
            THEN extend(upserted[id], openOrders[id])
            ELSE IF upserted[id].status = "open"
                 THEN closeOrder(upserted[id])
                 ELSE upserted[id]]

\* variant of fetchOrdersResult: only the open orders are returned
fetchOrdersResult_open(cache, symbol) ==
    {id \in DOMAIN cache :
        /\ cache[id].status = "open"
        /\ (symbol = undefinedStr \/ cache[id].symbol = symbol)}

\* the ids of the orders fetchOrders returns (since and limit undefined)
fetchOrdersResult(cache, symbol) ==
    {id \in DOMAIN cache : symbol = undefinedStr \/ cache[id].symbol = symbol}

\* A call starts in an idle slot.  The slots are interchangeable, so a call that
\* overlaps no other call runs in slot "a".
start(t) ==
    /\ pc[t] = "idle"
    /\ t = "b" => pc["a"] # "idle"
    /\ calls < MaxCalls
    /\ calls' = calls + 1

\* the call in slot t ends: its locals are gone, its outcome is kept
finish(t, outcome) ==
    /\ pc' = [pc EXCEPT ![t] = "idle"]
    /\ arg' = [arg EXCEPT ![t] = NoArg]
    /\ resp' = [resp EXCEPT ![t] = NoResp]
    /\ ret' = outcome

\* the call in slot t ends by raising the error the exchange call raised
raise(t, op) ==
    finish(t, [op |-> op, raised |-> resp[t].error,
               ids |-> IF arg[t].id # 0 THEN {arg[t].id} ELSE {}])

\* the call in slot t ends by returning
return(t, op, ids) == finish(t, [op |-> op, raised |-> "", ids |-> ids])

\* the call in slot t ends by returning one order record; of the record the
\* outcome keeps the id and the status
returnOrder(t, op, id, status) ==
    finish(t, [op |-> op, raised |-> "", ids |-> {id}, status |-> status])

\* a cache write by anything but cancelOrder and fetchOrders: the entries it
\* leaves alone keep their last writer
written(cache) ==
    /\ orders' = cache
    /\ cancelDone' = {id \in cancelDone : id \in DOMAIN cache /\ cache[id] = orders[id]}
    /\ prev' = <<>>

\* a call other than fetchOrders ends without writing the cache
untouched ==
    /\ UNCHANGED <<orders, cancelDone>>
    /\ prev' = <<>>

\* cancelOrder marks the order canceled, if it is cached
markCanceled(id) ==
    IF id \in DOMAIN orders
    THEN /\ orders' = mark(orders, {id}, "canceled")
         /\ cancelDone' = cancelDone \cup {id}
         /\ prev' = <<>>
    ELSE untouched

without(seq, t) == SelectSeq(seq, LAMBDA x : x # t)

\* fetchOrders up to the await of privatePostReturnOpenOrders: the exchange serves
\* the listing
fetchOrders_request(t, symbol) ==
    /\ start(t)
    /\ pc' = [pc EXCEPT ![t] = "fetchOrders:response"]
    /\ arg' = [arg EXCEPT ![t] = [NoArg EXCEPT !.symbol = symbol]]
    /\ resp' = [resp EXCEPT ![t] =
           [NoResp EXCEPT
              !.list = returnOpenOrders(IF symbol # undefinedStr
                                        THEN market(symbol).id ELSE "all")]]
    /\ served' = Append(served, t)
    /\ UNCHANGED <<orders, book, nextId, ret, stale, prev, cancelDone, events>>
    /\ orderStep

\* The rest of fetchOrders.  The call stays suspended from the moment the exchange
\* serves the listing until parseOpenOrders has awaited parseOrder (which awaits
\* loadMarkets) for the last entry; it reads and writes this.orders only after
\* that, in the synchronous upsert and reconcile loops.
fetchOrders_reconcile(t) ==
    /\ pc[t] = "fetchOrders:response"
    /\ LET openOrders == parseOpenOrders(resp[t].list, arg[t].symbol)
           cache == reconcile(orders, openOrders)
           older == {served[i] : i \in {j \in 1..Len(served) :
                                           \E k \in (j + 1)..Len(served) : served[k] = t}}
       IN  /\ orders' = cache
           /\ cancelDone' = {id \in cancelDone :
                               id \notin DOMAIN openOrders /\ cache[id] = orders[id]}
           /\ return(t, "fetchOrders", fetchOrdersResult(cache, arg[t].symbol))
           /\ served' = without(served, t)
           /\ stale' = (stale \cup older) \ {t}
           /\ prev' = <<resp[t].list, prev # <<>> /\ prev[1] = resp[t].list>>
    /\ UNCHANGED <<book, nextId, calls, events>>
    /\ orderStep

\* ---------------------------------------------------------------- createOrder
\* createOrder up to the await of privatePostBuy / privatePostSell: the exchange
\* books the order under a new order number (or the request fails)
createOrder_request(t, symbol, amount, price, error) ==
    /\ start(t)
    /\ pc' = [pc EXCEPT ![t] = "createOrder:response"]
    /\ arg' = [arg EXCEPT ![t] = [id |-> 0, symbol |-> symbol, amount |-> amount,
                                  price |-> price]]
    /\ IF error = ""
       THEN /\ book' = put(book, nextId,
                           [currencyPair |-> market(symbol).id, rate |-> price,
                            amount |-> amount, startingAmount |-> amount,
                            pending |-> FALSE])
            /\ nextId' = nextId + 1
            /\ resp' = [resp EXCEPT ![t] = [NoResp EXCEPT !.orderNumber = nextId]]
       ELSE /\ UNCHANGED <<book, nextId>>
            /\ resp' = [resp EXCEPT ![t] = [NoResp EXCEPT !.error = error]]
    /\ UNCHANGED <<orders, ret, served, stale, prev, cancelDone, events>>
    /\ orderStep

\* variant of createOrder_return: the order is cached with the status the response
\* carries, which is none
createOrder_return_unparsed(t) ==
    /\ pc[t] = "createOrder:response"
    /\ IF resp[t].error # ""
       THEN /\ raise(t, "createOrder")
            /\ untouched
       ELSE LET order == parseOrder(
                             extend(extend(NoOrder,
                                           [price |-> arg[t].price,
                                            amount |-> arg[t].amount]),
                                    [orderNumber |-> resp[t].orderNumber,
                                     resultingTrades |-> TRUE]),
                             market(arg[t].symbol))
            IN  /\ written(put(orders, order.id, order))
                /\ return(t, "createOrder", {order.id})
    /\ UNCHANGED <<book, nextId, served, stale, calls, events>>
    /\ orderStep

\* the response arrives, parseOrder is awaited, the order is cached and returned
createOrder_return(t) ==
    /\ pc[t] = "createOrder:response"
    /\ IF resp[t].error # ""
       THEN /\ raise(t, "createOrder")
            /\ untouched
       ELSE LET order == parseOrder(
                             extend(extend(NoOrder,
                                           [status |-> "open", price |-> arg[t].price,
                                            amount |-> arg[t].amount]),
                                    [orderNumber |-> resp[t].orderNumber,
                                     resultingTrades |-> TRUE]),
                             market(arg[t].symbol))
            IN  /\ written(put(orders, order.id, order))
                /\ return(t, "createOrder", {order.id})
    /\ UNCHANGED <<book, nextId, served, stale, calls, events>>
    /\ orderStep

\* ---------------------------------------------------------------- cancelOrder
\* cancelOrder up to the await of privatePostCancelOrder.  The exchange accepts the
\* cancel of an order it shows as open and hides the order while the cancel is
\* pending; it rejects a second cancel of that order with "You have already called
\* cancelOrder or moveOrder on this order." (CancelPending), and the cancel of an
\* order it does not hold with "Invalid order number, ..." (OrderNotFound).
cancelOrder_request(t, id) ==
    /\ start(t)
    /\ pc' = [pc EXCEPT ![t] = "cancelOrder:response"]
    /\ arg' = [arg EXCEPT ![t] = [NoArg EXCEPT !.id = id]]
    /\ IF id \notin DOMAIN book
       THEN /\ resp' = [resp EXCEPT ![t] = [NoResp EXCEPT !.error = "OrderNotFound"]]
            /\ book' = book
       ELSE IF book[id].pending
       THEN /\ resp' = [resp EXCEPT ![t] = [NoResp EXCEPT !.error = "CancelPending"]]
            /\ book' = book
       ELSE /\ resp' = [resp EXCEPT ![t] = NoResp]
            /\ book' = [book EXCEPT ![id].pending = TRUE]
    /\ UNCHANGED <<orders, nextId, ret, served, stale, prev, cancelDone, events>>
    /\ orderStep

\* variant of cancelOrder_return: the catch block only rethrows
cancelOrder_return_rethrow(t) ==
    /\ pc[t] = "cancelOrder:response"
    /\ LET id == arg[t].id
       IN  IF resp[t].error # ""
           THEN /\ untouched
                /\ raise(t, "cancelOrder")
           ELSE /\ markCanceled(id)
                /\ return(t, "cancelOrder", {id})
    /\ UNCHANGED <<book, nextId, served, stale, calls, events>>
    /\ orderStep

\* variant of cancelOrder_return: the catch block marks the order whatever the error
cancelOrder_return_marking(t) ==
    /\ pc[t] = "cancelOrder:response"
    /\ LET id == arg[t].id
       IN  IF resp[t].error # ""
           THEN /\ markCanceled(id)
                /\ raise(t, "cancelOrder")
           ELSE /\ markCanceled(id)
                /\ return(t, "cancelOrder", {id})
    /\ UNCHANGED <<book, nextId, served, stale, calls, events>>
    /\ orderStep

\* the rest of cancelOrder: the catch block, or the statements after the try
cancelOrder_return(t) ==
    /\ pc[t] = "cancelOrder:response"
    /\ LET id == arg[t].id
       IN  IF resp[t].error # ""
           THEN /\ IF resp[t].error = "CancelPending" THEN markCanceled(id) ELSE untouched
                /\ raise(t, "cancelOrder")
           ELSE /\ markCanceled(id)
                /\ return(t, "cancelOrder", {id})
    /\ UNCHANGED <<book, nextId, served, stale, calls, events>>
    /\ orderStep

\* ---------------------------------------------------------------- cancelAllOrders
\* cancelAllOrders up to the await of privatePostCancelAllOrders: the exchange
\* accepts the cancel of every order it shows for the pair and names them
cancelAllOrders_request(t, symbol) ==
    /\ start(t)
    /\ pc' = [pc EXCEPT ![t] = "cancelAllOrders:response"]
    /\ arg' = [arg EXCEPT ![t] = [NoArg EXCEPT !.symbol = symbol]]
    /\ LET shown == {w.orderNumber :
                            w \in returnOpenOrders(IF symbol # undefinedStr
                                                   THEN market(symbol).id ELSE "all")}
       IN  /\ resp' = [resp EXCEPT ![t] = [NoResp EXCEPT !.orderNumbers = shown]]
           /\ book' = [i \in DOMAIN book |->
                         IF i \in shown THEN [book[i] EXCEPT !.pending = TRUE]
                                        ELSE book[i]]
    /\ UNCHANGED <<orders, nextId, ret, served, stale, prev, cancelDone, events>>
    /\ orderStep

\* the rest of cancelAllOrders: every cached order the response names is marked
cancelAllOrders_return(t) ==
    /\ pc[t] = "cancelAllOrders:response"
    /\ written(mark(orders, resp[t].orderNumbers, "canceled"))
    /\ return(t, "cancelAllOrders", resp[t].orderNumbers)
    /\ UNCHANGED <<book, nextId, served, stale, calls, events>>
    /\ orderStep

\* ---------------------------------------------------------------- editOrder
\* editOrder up to the await of privatePostMoveOrder.  The exchange replaces an
\* order it shows as open by a new one, under a new order number, at the new rate
\* and, when an amount is given, with the new amount; it rejects the move of an
\* order with a cancel pending (CancelPending) and of an order it does not hold
\* ("... is either completed or does not exist", InvalidOrder).  The caller names
\* the market the order is on.
editOrder_request(t, id, symbol, amount, price) ==
    /\ start(t)
    /\ id \in DOMAIN book => symbol = markets_by_id[book[id].currencyPair].symbol
    /\ pc' = [pc EXCEPT ![t] = "editOrder:response"]
    /\ arg' = [arg EXCEPT ![t] = [id |-> id, symbol |-> symbol, amount |-> amount,
                                  price |-> price]]
    /\ IF id \notin DOMAIN book
       THEN /\ resp' = [resp EXCEPT ![t] = [NoResp EXCEPT !.error = "InvalidOrder"]]
            /\ UNCHANGED <<book, nextId>>
       ELSE IF book[id].pending
       THEN /\ resp' = [resp EXCEPT ![t] = [NoResp EXCEPT !.error = "CancelPending"]]
            /\ UNCHANGED <<book, nextId>>
       ELSE LET moved == IF amount # undefinedNum THEN amount ELSE book[id].amount
            IN  /\ resp' = [resp EXCEPT ![t] = [NoResp EXCEPT !.orderNumber = nextId]]
                /\ book' = put(remove(book, {id}), nextId,
                               [currencyPair |-> book[id].currencyPair, rate |-> price,
                                amount |-> moved, startingAmount |-> moved,
                                pending |-> FALSE])
                /\ nextId' = nextId + 1
    /\ UNCHANGED <<orders, ret, served, stale, prev, cancelDone, events>>
    /\ orderStep

\* variant of editOrder_return: the new entry keeps the price of the old one
editOrder_return_old_price(t) ==
    /\ pc[t] = "editOrder:response"
    /\ LET id == arg[t].id
           newid == resp[t].orderNumber
       IN  IF resp[t].error # ""
           THEN /\ raise(t, "editOrder")
                /\ untouched
           ELSE IF id \in DOMAIN orders
           THEN LET canceled == mark(orders, {id}, "canceled")
                    moved == extend(canceled[id],
                                    [id |-> newid,
                                     status |-> "open"])
                    order == IF arg[t].amount # undefinedNum
                             THEN [moved EXCEPT !.amount = arg[t].amount]
                             ELSE moved
                IN  /\ written(put(canceled, newid, order))
                    /\ return(t, "editOrder", {newid})
           ELSE /\ pc' = [pc EXCEPT ![t] = "editOrder:parse"]
                /\ UNCHANGED <<orders, cancelDone, prev, arg, resp, ret>>
    /\ UNCHANGED <<book, nextId, served, stale, calls, events>>
    /\ orderStep

\* the rest of editOrder when the id is cached, which is synchronous; when the id
\* is not cached the call goes on to await parseOrder
editOrder_return(t) ==
    /\ pc[t] = "editOrder:response"
    /\ LET id == arg[t].id
           newid == resp[t].orderNumber
       IN  IF resp[t].error # ""
           THEN /\ raise(t, "editOrder")
                /\ untouched
           ELSE IF id \in DOMAIN orders
           THEN LET canceled == mark(orders, {id}, "canceled")
                    moved == extend(canceled[id],
                                    [id |-> newid, price |-> arg[t].price,
                                     status |-> "open"])
                    order == IF arg[t].amount # undefinedNum
                             THEN [moved EXCEPT !.amount = arg[t].amount]
                             ELSE moved
                IN  /\ written(put(canceled, newid, order))
                    /\ return(t, "editOrder", {newid})
           ELSE /\ pc' = [pc EXCEPT ![t] = "editOrder:parse"]
                /\ UNCHANGED <<orders, cancelDone, prev, arg, resp, ret>>
    /\ UNCHANGED <<book, nextId, served, stale, calls, events>>
    /\ orderStep

\* the rest of editOrder when the id was not cached: the parsed response is
\* cached under its own id
editOrder_parsed(t) ==
    /\ pc[t] = "editOrder:parse"
    /\ LET result == parseOrder(extend(NoOrder, [orderNumber |-> resp[t].orderNumber,
                                                 resultingTrades |-> TRUE]),
                                IF arg[t].symbol # undefinedStr
                                THEN market(arg[t].symbol) ELSE NoMarket)
       IN  /\ written(put(orders, result.id, result))
           /\ return(t, "editOrder", {result.id})
    /\ UNCHANGED <<book, nextId, served, stale, calls, events>>
    /\ orderStep

\* ---------------------------------------------------------------- fetchOrder
\* returnOrderStatus: the exchange knows the status of the orders it shows as open
returnOrderStatus(id) ==
    IF id \in DOMAIN book /\ ~book[id].pending
    THEN extend(NoOrder,
                [status |-> IF book[id].amount = book[id].startingAmount
                            THEN "Open" ELSE "Partially filled",
                 currencyPair |-> book[id].currencyPair, rate |-> book[id].rate,
                 amount |-> book[id].amount,
                 startingAmount |-> book[id].startingAmount])
    ELSE NoOrder

\* returnOrderTrades for an order that has no trades answers {"error": "Order not
\* found, or you are not the person who placed it."}, which handleErrors throws as
NoTrades ==
    handleErrors([defined |-> TRUE, hasError |-> TRUE,
                  error |-> <<"Order not found, or you are not the person who placed it.">>]
                ).thrown

\* fetchOrder up to the await of privatePostReturnOrderStatus
fetchOrder_request(t, id) ==
    /\ start(t)
    /\ pc' = [pc EXCEPT ![t] = "fetchOrder:status"]
    /\ arg' = [arg EXCEPT ![t] = [NoArg EXCEPT !.id = id]]
    /\ resp' = [resp EXCEPT ![t] = [NoResp EXCEPT !.list = {returnOrderStatus(id)}]]
    /\ UNCHANGED <<orders, book, nextId, ret, served, stale, prev, cancelDone, events>>
    /\ orderStep

\* the status response arrives; fetchOrder goes on to the await of
\* privatePostReturnOrderTrades, whose error the catch block swallows
fetchOrder_trades(t, trades) ==
    /\ pc[t] = "fetchOrder:status"
    /\ pc' = [pc EXCEPT ![t] = "fetchOrder:trades"]
    /\ resp' = [resp EXCEPT ![t].trades = trades,
                            ![t].error = IF trades THEN "" ELSE NoTrades]
    /\ UNCHANGED <<arg, ret>>
    /\ UNCHANGED <<orders, book, nextId, served, stale, prev, cancelDone, calls, events>>
    /\ orderStep

\* variant of fetchOrder_return: the order is returned but not stored
fetchOrder_return_uncached(t) ==
    /\ pc[t] = "fetchOrder:trades"
    /\ LET id == arg[t].id
           result == CHOOSE r \in resp[t].list : TRUE
       IN  IF result = NoOrder
           THEN /\ IF resp[t].trades
                   THEN returnOrder(t, "fetchOrder", id, parseOrderStatus("closed"))
                   ELSE returnOrder(t, "fetchOrder", id, "canceled")
                /\ untouched
           ELSE LET order == [parseOrder(result, NoMarket) EXCEPT !.id = id]
                IN  /\ untouched
                    /\ returnOrder(t, "fetchOrder", id, order.status)
    /\ UNCHANGED <<book, nextId, served, stale, calls, events>>
    /\ orderStep

\* the rest of fetchOrder: only an order the status endpoint returned is cached
fetchOrder_return(t) ==
    /\ pc[t] = "fetchOrder:trades"
    /\ LET id == arg[t].id
           result == CHOOSE r \in resp[t].list : TRUE
       IN  IF result = NoOrder
           THEN /\ IF resp[t].trades
                   THEN returnOrder(t, "fetchOrder", id, parseOrderStatus("closed"))
                   ELSE returnOrder(t, "fetchOrder", id, "canceled")
                /\ untouched
           ELSE LET order == [parseOrder(result, NoMarket) EXCEPT !.id = id]
                IN  /\ written(put(orders, id, order))
                    /\ returnOrder(t, "fetchOrder", id, order.status)
    /\ UNCHANGED <<book, nextId, served, stale, calls, events>>
    /\ orderStep

\* ---------------------------------------------------------------- fetchOpenOrder
\* fetchOpenOrder up to the await of privatePostReturnOrderStatus
fetchOpenOrder_request(t, id) ==
    /\ start(t)
    /\ pc' = [pc EXCEPT ![t] = "fetchOpenOrder:status"]
    /\ arg' = [arg EXCEPT ![t] = [NoArg EXCEPT !.id = id]]
    /\ resp' = [resp EXCEPT ![t] = [NoResp EXCEPT !.list = {returnOrderStatus(id)}]]
    /\ UNCHANGED <<orders, book, nextId, ret, served, stale, prev, cancelDone, events>>
    /\ orderStep

\* the rest of fetchOpenOrder: OrderNotFound, or the order is cached and returned
fetchOpenOrder_return(t) ==
    /\ pc[t] = "fetchOpenOrder:status"
    /\ LET id == arg[t].id
           result == CHOOSE r \in resp[t].list : TRUE
       IN  IF result = NoOrder
           THEN /\ finish(t, [op |-> "fetchOpenOrder", raised |-> "OrderNotFound",
                              ids |-> {}])
                /\ untouched
           ELSE LET order == [parseOrder(result, NoMarket) EXCEPT !.id = id]
                IN  /\ written(put(orders, id, order))
                    /\ returnOrder(t, "fetchOpenOrder", id, order.status)
    /\ UNCHANGED <<book, nextId, served, stale, calls, events>>
    /\ orderStep

\* ---------------------------------------------------------------- fetchOrderTrades
\* fetchOrderTrades up to the await of privatePostReturnOrderTrades, which answers
\* with the trades of the order or raises
fetchOrderTrades_request(t, id, trades) ==
    /\ start(t)
    /\ pc' = [pc EXCEPT ![t] = "fetchOrderTrades:response"]
    /\ arg' = [arg EXCEPT ![t] = [NoArg EXCEPT !.id = id]]
    /\ resp' = [resp EXCEPT ![t] = [NoResp EXCEPT !.trades = trades,
                                                  !.error = IF trades THEN ""
                                                            ELSE NoTrades]]
    /\ UNCHANGED <<orders, book, nextId, ret, served, stale, prev, cancelDone, events>>
    /\ orderStep

\* the rest of fetchOrderTrades: the parsed trades, or undefined from the catch block
fetchOrderTrades_return(t) ==
    /\ pc[t] = "fetchOrderTrades:response"
    /\ return(t, "fetchOrderTrades", {})
    /\ untouched
    /\ UNCHANGED <<book, nextId, served, stale, calls, events>>
    /\ orderStep

\* ---------------------------------------------------------------- fetchOrderStatus
\* fetchOrderStatus up to the await of privatePostReturnOpenOrders in the
\* fetchOrders that fetchOpenOrders calls
fetchOrderStatus_request(t, id, symbol) ==
    /\ start(t)
    /\ pc' = [pc EXCEPT ![t] = "fetchOrderStatus:response"]
    /\ arg' = [arg EXCEPT ![t] = [NoArg EXCEPT !.id = id, !.symbol = symbol]]
    /\ resp' = [resp EXCEPT ![t] =
           [NoResp EXCEPT
              !.list = returnOpenOrders(IF symbol # undefinedStr
                                        THEN market(symbol).id ELSE "all")]]
    /\ UNCHANGED <<orders, book, nextId, ret, served, stale, prev, cancelDone, events>>
    /\ orderStep

\* this.filterOrdersByStatus (orders, 'open') on the result of fetchOrders
fetchOpenOrdersResult(cache, symbol) ==
    {id \in fetchOrdersResult(cache, symbol) : cache[id].status = "open"}

\* the rest of fetchOrderStatus: the reconcile pass of fetchOrders, then
\* (id in indexed) ? 'open' : 'closed'
fetchOrderStatus_return(t) ==
    /\ pc[t] = "fetchOrderStatus:response"
    /\ LET openOrders == parseOpenOrders(resp[t].list, arg[t].symbol)
           cache == reconcile(orders, openOrders)
           indexed == fetchOpenOrdersResult(cache, arg[t].symbol)
       IN  /\ orders' = cache
           /\ cancelDone' = {id \in cancelDone :
                               id \notin DOMAIN openOrders /\ cache[id] = orders[id]}
           /\ prev' = <<>>
           /\ returnOrder(t, "fetchOrderStatus", arg[t].id,
                          IF arg[t].id \in indexed THEN "open" ELSE "closed")
    /\ UNCHANGED <<book, nextId, served, stale, calls, events>>
    /\ orderStep

\* ---------------------------------------------------------------- exchange events
event ==
    /\ events < MaxEvents
    /\ events' = events + 1
    /\ UNCHANGED <<orders, nextId, pc, arg, resp, ret, served, stale, prev, cancelDone,
                   calls>>
    /\ orderStep

\* an order the exchange shows as open is matched completely and leaves the book
exchange_fill(id) ==
    /\ event
    /\ id \in DOMAIN book /\ ~book[id].pending
    /\ book' = remove(book, {id})

\* an order the exchange shows as open is matched in part
exchange_partial_fill(id) ==
    /\ event
    /\ id \in DOMAIN book /\ ~book[id].pending /\ book[id].amount > 1
    /\ book' = [book EXCEPT ![id].amount = @ - 1]

\* the cancel of an order is requested by another client of the account
exchange_cancel_requested(id) ==
    /\ event
    /\ id \in DOMAIN book /\ ~book[id].pending
    /\ book' = [book EXCEPT ![id].pending = TRUE]

\* a pending cancel is carried out: the order leaves the book
exchange_canceled(id) ==
    /\ event
    /\ id \in DOMAIN book /\ book[id].pending
    /\ book' = remove(book, {id})

\* a pending cancel is not carried out and the order is shown as open again
\* ("If for some reason the order does not get canceled and still appears in the
\* active list", comment in cancelOrder)
exchange_not_canceled(id) ==
    /\ event
    /\ id \in DOMAIN book /\ book[id].pending
    /\ book' = [book EXCEPT ![id].pending = FALSE]

\* ---------------------------------------------------------------- specification
\* the order numbers a caller may name: those handed out so far and one that was not
Known == {id \in Ids : id <= nextId}

\* the exchange may refuse to book an order ("Not enough ...", InsufficientFunds)
Refusal == {"", "InsufficientFunds"}

\* the steps of the calls running in the slots T, and of the exchange
Step(T) ==
    \/ \E t \in T, symbol \in Symbols \cup {undefinedStr} : fetchOrders_request(t, symbol)
    \/ \E t \in T : fetchOrders_reconcile(t)
    \/ \E t \in T, symbol \in Symbols, amount \in Amounts, price \in Prices,
          error \in Refusal :
          createOrder_request(t, symbol, amount, price, error)
    \/ \E t \in T : createOrder_return(t)
    \/ \E t \in T, id \in Known : cancelOrder_request(t, id)
    \/ \E t \in T : cancelOrder_return(t)
    \/ \E t \in T, symbol \in Symbols \cup {undefinedStr} :
          cancelAllOrders_request(t, symbol)
    \/ \E t \in T : cancelAllOrders_return(t)
    \/ \E t \in T, id \in Known, symbol \in Symbols,
          amount \in Amounts \cup {undefinedNum}, price \in Prices :
          editOrder_request(t, id, symbol, amount, price)
    \/ \E t \in T : editOrder_return(t)
    \/ \E t \in T : editOrder_parsed(t)
    \/ \E t \in T, id \in Known : fetchOrder_request(t, id)
    \/ \E t \in T, trades \in BOOLEAN : fetchOrder_trades(t, trades)
    \/ \E t \in T : fetchOrder_return(t)
    \/ \E t \in T, id \in Known, trades \in BOOLEAN :
          fetchOrderTrades_request(t, id, trades)
    \/ \E t \in T : fetchOrderTrades_return(t)
    \/ \E t \in T, id \in Known : fetchOpenOrder_request(t, id)
    \/ \E t \in T : fetchOpenOrder_return(t)
    \/ \E id \in Ids : exchange_fill(id)
    \/ \E id \in Ids : exchange_partial_fill(id)
    \/ \E id \in Ids : exchange_cancel_requested(id)
    \/ \E id \in Ids : exchange_canceled(id)
    \/ \E id \in Ids : exchange_not_canceled(id)

\* one call at a time: each call runs to its end before the next one starts
NextSeq == Step({"a"})

\* calls of one instance overlapping: a second call may start while one is suspended
Next == Step(Tasks)

\* one call at a time, fetchOrderStatus among the calls
NextStatus ==
    \/ Step({"a"})
    \/ \E id \in Known, symbol \in Symbols \cup {undefinedStr} :
          fetchOrderStatus_request("a", id, symbol)
    \/ fetchOrderStatus_return("a")

SpecSeq == Init /\ [][NextSeq]_vars

SpecStatus == Init /\ [][NextStatus]_vars

Spec == Init /\ [][Next]_vars

\* ---------------------------------------------------------------- properties
Terminal == {"closed", "canceled"}

\* the step in which the fetchOrders call of slot t upserts, reconciles and returns
Reconciles(t) == pc[t] = "fetchOrders:response" /\ pc'[t] = "idle"

\* the order numbers in the listing the fetchOrders call of slot t holds
Listed(t) == {w.orderNumber : w \in resp[t].list}

\* C1: a reconcile pass leaves the status of every cached order that is closed or
\* canceled as it is, whatever the listing contains.
C1_ReconcileKeepsTerminal ==
    [][\A t \in Tasks : Reconciles(t) =>
          \A id \in DOMAIN orders :
              orders[id].status \in Terminal =>
                  orders'[id].status = orders[id].status]_vars

\* C2: no operation changes the status of a cached order that is closed or canceled.
C2_TerminalIsFinal ==
    [][\A id \in DOMAIN orders :
          orders[id].status \in Terminal =>
              id \in DOMAIN orders' /\ orders'[id].status = orders[id].status]_vars

\* C3: a reconcile pass turns every cached open order the listing omits into a
\* closed order with filled = amount, remaining = 0 and cost = filled * price.
C3_MissingOpenIsClosed ==
    [][\A t \in Tasks : Reconciles(t) =>
          \A id \in DOMAIN orders :
              (orders[id].status = "open" /\ id \notin Listed(t)) =>
                  /\ orders'[id].status = "closed"
                  /\ orders'[id].amount = orders[id].amount
                  /\ orders'[id].filled = orders[id].amount
                  /\ orders'[id].remaining = 0
                  /\ orders'[id].cost = times(orders'[id].filled, orders[id].price)]_vars

C3_Witness ==
    /\ ret.op = "fetchOrders" /\ prev # <<>>
    /\ \E id \in ret.ids :
          /\ orders[id].status = "closed" /\ id \notin {w.orderNumber : w \in prev[1]}
          /\ orders[id].filled = 2 /\ orders[id].remaining = 0
          /\ orders[id].price = 2 /\ orders[id].cost = 4

\* C4: a fetchOrders that follows a fetchOrders at once and applies the same
\* listing leaves the cache as the first one left it.
C4_ReconcileIdempotent ==
    [][\A t \in Tasks :
          (Reconciles(t) /\ prev # <<>> /\ prev[1] = resp[t].list) =>
              orders' = orders]_vars

C4_Witness ==
    /\ ret.op = "fetchOrders"
    /\ prev # <<>> /\ prev[2]
    /\ \E id \in ret.ids : orders[id].status = "closed"

\* C5: a cancelOrder whose exchange call raises CancelPending for a cached id marks
\* the order canceled and raises CancelPending.
C5_CancelPendingMarksCanceled ==
    [][\A t \in Tasks :
          (/\ pc[t] = "cancelOrder:response" /\ pc'[t] = "idle"
           /\ resp[t].error = "CancelPending"
           /\ arg[t].id \in DOMAIN orders) =>
              /\ orders'[arg[t].id].status = "canceled"
              /\ ret' = [op |-> "cancelOrder", raised |-> "CancelPending",
                         ids |-> {arg[t].id}]]_vars

C5_Witness ==
    /\ ret.op = "cancelOrder" /\ ret.raised = "CancelPending"
    /\ \E id \in ret.ids : id \in cancelDone /\ orders[id].status = "canceled"

\* C6: once cancelOrder has finished for a cached order, a reconcile pass whose
\* listing omits the order leaves it canceled.
C6_CanceledSurvivesReconcile ==
    [][\A t \in Tasks : Reconciles(t) =>
          \A id \in cancelDone :
              id \notin Listed(t) => orders'[id].status = "canceled"]_vars

C6_Witness ==
    /\ ret.op = "fetchOrders"
    /\ \E id \in cancelDone : id \in ret.ids /\ orders[id].status = "canceled"

\* C7: while a cancelOrder is waiting for the exchange's answer, no reconcile pass
\* finds the order open and closes it.
C7_NoCloseDuringCancel ==
    [][\A t \in Tasks, u \in Tasks :
          (/\ Reconciles(t)
           /\ pc[u] = "cancelOrder:response"
           /\ arg[u].id \in DOMAIN orders) =>
              ~(/\ orders[arg[u].id].status = "open"
                /\ orders'[arg[u].id].status = "closed")]_vars

\* C8: a reconcile pass never applies a listing older than one already applied,
\* so it never sets an order that is closed back to open.
C8_NoStaleReconcile ==
    [][\A t \in Tasks : (Reconciles(t) /\ t \in stale) =>
          \A id \in DOMAIN orders :
              orders[id].status = "closed" => orders'[id].status = "closed"]_vars

\* C9: no step removes an id from the cache, and an unscoped fetchOrders returns
\* every cached order, the closed and canceled ones included.
C9_CacheGrows ==
    [][/\ DOMAIN orders \subseteq DOMAIN orders'
       /\ \A t \in Tasks :
             (Reconciles(t) /\ arg[t].symbol = undefinedStr) =>
                 /\ DOMAIN orders \subseteq ret'.ids
                 /\ ret'.ids = DOMAIN orders']_vars

C9_Witness ==
    /\ ret.op = "fetchOrders"
    /\ Cardinality(ret.ids) >= 2
    /\ \E id \in ret.ids : orders[id].status = "closed"
    /\ \E id \in ret.ids : orders[id].status = "canceled"

\* C10: after a reconcile pass every order of the listing is cached under its order
\* number, open, at the rate and with the remaining amount of the listing.
C10_ListedIsUpserted ==
    [][\A t \in Tasks : Reconciles(t) =>
          \A w \in resp[t].list :
              /\ w.orderNumber \in DOMAIN orders'
              /\ orders'[w.orderNumber].id = w.orderNumber
              /\ orders'[w.orderNumber].status = "open"
              /\ orders'[w.orderNumber].price = w.rate
              /\ orders'[w.orderNumber].remaining = w.amount]_vars

C10_Witness ==
    /\ ret.op = "fetchOrders" /\ prev # <<>>
    /\ \E id \in ret.ids :
          /\ orders[id].status = "open"
          /\ orders[id].amount = 2 /\ orders[id].remaining = 1 /\ orders[id].filled = 1
          /\ \E w \in prev[1] : w.orderNumber = id /\ w.amount = 1

\* C11: a createOrder the exchange accepts ends with the order cached as open under
\* the order number of the response and returns that id; a createOrder whose
\* exchange call raises ends with the cache as it was and raises the error.
C11_CreateOrderCaches ==
    [][\A t \in Tasks :
          (pc[t] = "createOrder:response" /\ pc'[t] = "idle") =>
              IF resp[t].error = ""
              THEN /\ resp[t].orderNumber \in DOMAIN orders'
                   /\ orders'[resp[t].orderNumber].id = resp[t].orderNumber
                   /\ orders'[resp[t].orderNumber].status = "open"
                   /\ ret' = [op |-> "createOrder", raised |-> "",
                              ids |-> {resp[t].orderNumber}]
              ELSE /\ orders' = orders
                   /\ ret'.raised = resp[t].error]_vars

C11_Witness ==
    /\ ret.op = "createOrder" /\ ret.raised = ""
    /\ \E id \in ret.ids :
          /\ id \in DOMAIN orders /\ id \in DOMAIN book
          /\ orders[id].status = "open" /\ orders[id].price = 2
          /\ orders[id].amount = 2 /\ orders[id].filled = 0

\* C12: for a response with an error message handleErrors throws the kind the exact
\* table gives the message when the message is one of its keys, otherwise the kind
\* of a broad key the message contains, otherwise ExchangeError with the message;
\* for an undefined response or one without an error field it throws nothing.
C12_ErrorsClassified ==
    output # NotRun =>
        IF ~input.defined \/ ~input.hasError THEN output = Returned
        ELSE LET message == input.error
             IN  IF Len(message) = 1 /\ message[1] \in keys(exact)
                 THEN output = throw(lookup(exact, message[1]), message)
                 ELSE IF \E k \in keys(broad) : contains(message, k)
                 THEN /\ output.message = message
                      /\ \E k \in keys(broad) :
                            contains(message, k) /\ output.thrown = lookup(broad, k)
                 ELSE output = throw("ExchangeError", message)

\* C13: a public operation in which an exchange call raised a classified error ends
\* by raising that error to its caller.
C13_ErrorsSurface ==
    [][\A t \in Tasks :
          (pc[t] # "idle" /\ pc'[t] = "idle" /\ resp[t].error # "") =>
              ret'.raised = resp[t].error]_vars

C15_UnknownOrderNotInvented ==
    [][\A t \in Tasks :
          (/\ pc[t] = "fetchOrder:trades" /\ pc'[t] = "idle"
           /\ resp[t].list = {NoOrder}) =>
              /\ orders' = orders
              /\ ret'.raised = "OrderNotFound" \/ ret'.ids = {}]_vars

\* C16: every account fetchBalance builds has total == free + used.
C16_TotalIsFreePlusUsed ==
    output # NotRun =>
        \A code \in DOMAIN output.result :
            output.result[code].total
                = fadd(output.result[code].free, output.result[code].used)

\* C17: every entry of the structure fetchWalletBalance returns (poloniex and
\* binance), for every asset and each of the wallets exchange, margin and lending,
\* has total == available + on_orders.
C17_WalletTotalIsSum ==
    output # NotRun =>
        \A code \in DOMAIN output.result : \A wallet \in Wallets :
            output.result[code][wallet].total =
                fadd(output.result[code][wallet].available,
                     output.result[code][wallet].on_orders)

\* poloniex has returned an asset with amounts available and on orders in the
\* exchange wallet and amounts on loan offers in the lending wallet
C17_Witness ==
    /\ output # NotRun
    /\ input.exchange = "poloniex"
    /\ \E code \in DOMAIN output.result :
          /\ output.result[code]["exchange"].available > 0
          /\ output.result[code]["exchange"].on_orders > 0
          /\ output.result[code]["lending"].on_orders > 0

RECURSIVE Total(_)
\* the sum of a sequence of amounts, added up in their order
Total(amounts) ==
    IF amounts = <<>> THEN 0
    ELSE fadd(Total(SubSeq(amounts, 1, Len(amounts) - 1)), amounts[Len(amounts)])

\* the amounts the sources of poloniex hold for a currency code
AvailableOf(code, wallet) ==
    LET of == SelectSeq(input.available,
                        LAMBDA e : e.wallet = wallet /\ commonCurrencyCode(e.currency) = code)
    IN  Total([i \in DOMAIN of |-> of[i].amount])

OnOrdersOf(code) ==
    LET of == SelectSeq(input.complete, LAMBDA e : commonCurrencyCode(e.currency) = code)
    IN  Total([i \in DOMAIN of |-> of[i].onOrders])

LoansOf(code) ==
    LET of == SelectSeq(input.open_loans \o input.active_loans,
                        LAMBDA e : commonCurrencyCode(e.currency) = code)
    IN  Total([i \in DOMAIN of |-> of[i].amount])

Referenced(code) ==
    \/ \E i \in DOMAIN input.available : commonCurrencyCode(input.available[i].currency) = code
    \/ \E i \in DOMAIN input.complete :
          /\ commonCurrencyCode(input.complete[i].currency) = code
          /\ input.complete[i].onOrders # 0
    \/ \E i \in DOMAIN input.open_loans : commonCurrencyCode(input.open_loans[i].currency) = code
    \/ \E i \in DOMAIN input.active_loans :
          commonCurrencyCode(input.active_loans[i].currency) = code

\* C18: poloniex fetchWalletBalance has an asset as a key of its result only if
\* the asset occurs in the available balances, or has a non-zero onOrders in the
\* complete balances, or has an open or active loan offer; for each such asset
\* available per wallet is the sum of the available amounts of the raw ids that
\* map to it, exchange on_orders the sum of their onOrders, and lending on_orders
\* the sum of the amounts of its open and active loan offers.
C18_LazyRecordsAndSums ==
    (output # NotRun /\ input.exchange = "poloniex") =>
        \A code \in DOMAIN output.result :
            /\ Referenced(code)
            /\ \A wallet \in Wallets :
                  output.result[code][wallet].available = AvailableOf(code, wallet)
            /\ output.result[code]["exchange"].on_orders = OnOrdersOf(code)
            /\ output.result[code]["lending"].on_orders = LoansOf(code)

\* two raw ids of one code have been summed in a wallet and in the orders, an open
\* and an active offer in the lending wallet
C18_Witness ==
    /\ output # NotRun
    /\ input.exchange = "poloniex"
    /\ Len(input.open_loans) = 1 /\ Len(input.active_loans) = 1
    /\ \E i, j \in DOMAIN input.available :
          /\ i # j
          /\ input.available[i].wallet = input.available[j].wallet
          /\ input.available[i].amount > 0 /\ input.available[j].amount > 0
    /\ \E i, j \in DOMAIN input.complete :
          i # j /\ input.complete[i].onOrders > 0 /\ input.complete[j].onOrders > 0
    /\ DOMAIN output.result = {"XLM"}

\* C19: every entry the per-wallet-map variant of fetchWalletBalance returns has
\* total == available + on_orders, also when two raw currency ids of one wallet
\* map to the same currency code.
C19_MapsTotalIsSum ==
    output # NotRun =>
        \A wallet \in Wallets : \A code \in DOMAIN output.result[wallet] :
            output.result[wallet][code].total =
                fadd(output.result[wallet][code].available,
                     output.result[wallet][code].on_orders)

\* a field of a parsed object, undefined when the object does not have it
strField(object, name) == IF name \in DOMAIN object THEN object[name] ELSE undefinedStr
numField(object, name) == IF name \in DOMAIN object THEN object[name] ELSE undefinedNum

\* a <= b in JavaScript: false when either side is undefined
lte(a, b) == a # undefinedNum /\ b # undefinedNum /\ a <= b

\* the base and the quote asset of the market a trade was made on
TradeBase == split(IF input.market # NoMarket THEN input.market.id
                   ELSE input.trade.currencyPair)[2]
TradeQuote == split(IF input.market # NoMarket THEN input.market.id
                    ELSE input.trade.currencyPair)[1]

\* C20: for every trade parsed by poloniex parseTrade with a non-negative fee
\* rate: when side is buy the fee currency is the base asset and
\* filled <= amount; when side is sell the fee currency is the quote asset and
\* cost <= total.
C20_FeeAsymmetry ==
    (/\ output # NotRun
     /\ input.trade.hasFee /\ input.trade.fee >= 0
     /\ input.market # NoMarket \/ input.trade.currencyPair # NoPair) =>
        /\ input.trade.type = "buy" =>
              /\ strField(output.result.fee, "currency") = TradeBase
              /\ lte(numField(output.result, "filled"), numField(output.result, "amount"))
        /\ input.trade.type = "sell" =>
              /\ strField(output.result.fee, "currency") = TradeQuote
              /\ lte(numField(output.result, "cost"), numField(output.result, "total"))

\* C21: wherever poloniex resolves a symbol from a native pair id "Q_B"
\* (fetchTickers, fetchOrderBooks, fetchMyTrades, parseTrade as fetchOrderTrades
\* uses it), the symbol is that of the market when the id is in the
\* market-by-id index, and otherwise base/quote rebuilt with the commonCurrencies
\* remap of B and of Q, equal to the symbol fetchMarkets would give the id.
C21_SymbolAsFetchMarkets ==
    output # NotRun =>
        \A id \in DOMAIN output.result :
            /\ id \in DOMAIN markets_by_id => output.result[id] = markets_by_id[id].symbol
            /\ output.result[id] = fetchMarkets_symbol(id)

\* C22: parseTransaction reduces the reported amount by the fee exactly for
\* withdrawals: a withdrawal has amount = raw amount - fee.cost, a deposit the raw
\* amount, and fee.cost is the raw fee, or 0 when the payload has no fee.
C22_WithdrawalNetOfFee ==
    output # NotRun =>
        \A i \in DOMAIN output.result :
            LET t == output.result[i]
            IN  /\ t.fee.cost = IF t.info.fee = undefinedNum THEN 0 ELSE t.info.fee
                /\ t.type = "withdrawal" => t.amount = fsub(t.info.amount, t.fee.cost)
                /\ t.type = "deposit" => t.amount = t.info.amount

\* a withdrawal and a deposit that both report a fee have been parsed, and the
\* withdrawal's amount is below the reported one
C22_Witness ==
    /\ output # NotRun
    /\ \E i, j \in DOMAIN output.result :
          /\ output.result[i].type = "withdrawal"
          /\ output.result[i].fee.cost > 0
          /\ output.result[i].amount < output.result[i].info.amount
          /\ output.result[j].type = "deposit"
          /\ output.result[j].fee.cost > 0

\* C23: every order in the order cache, and every order fetchOrders, fetchOrder or
\* fetchOpenOrder returns, has a status in {open, closed, canceled}, whatever
\* status the exchange reports for it.
C23_StatusInDomain ==
    /\ \A id \in DOMAIN orders : orders[id].status \in Statuses
    /\ (ret.op \in {"fetchOrder", "fetchOpenOrder"} /\ ret.raised = "") =>
          ret.status \in Statuses

\* C24: when an order that cancelOrder marked canceled is still open on the
\* exchange, a fetchOrder (id) that receives the order from the order-status
\* endpoint leaves the cached order with the status the exchange reports, open.
C24_FetchOrderResyncs ==
    [][\A t \in Tasks :
          (/\ pc[t] = "fetchOrder:trades" /\ pc'[t] = "idle"
           /\ resp[t].list # {NoOrder}
           /\ arg[t].id \in cancelDone
           /\ orders[arg[t].id].status = "canceled") =>
              /\ orders'[arg[t].id].status = "open"
              /\ ret'.status = "open"]_vars

\* a fetchOrder has the order-status response for an order that cancelOrder marked
\* canceled and that the exchange shows as open again
C24_Witness ==
    \E t \in Tasks :
        /\ pc[t] = "fetchOrder:trades"
        /\ resp[t].list # {NoOrder}
        /\ arg[t].id \in cancelDone
        /\ orders[arg[t].id].status = "canceled"
        /\ arg[t].id \in DOMAIN book /\ ~book[arg[t].id].pending

\* C25: a successful editOrder of a cached id leaves the old entry canceled and
\* adds, under the order number the exchange returned, an entry with status open,
\* that number as its id, the new price, the new amount when one was given, and
\* the old entry's other fields; for an id that is not cached the only change is
\* the parsed response stored under its own id; when the exchange call raises the
\* cache is unchanged.
C25_EditOrderMoves ==
    [][\A t \in Tasks :
          LET id == arg[t].id
              newid == resp[t].orderNumber
          IN  /\ (pc[t] = "editOrder:response" /\ pc'[t] = "idle") =>
                    IF resp[t].error # ""
                    THEN orders' = orders /\ ret'.raised = resp[t].error
                    ELSE /\ id \in DOMAIN orders
                         /\ DOMAIN orders' = DOMAIN orders \cup {newid}
                         /\ orders'[id] = [orders[id] EXCEPT !.status = "canceled"]
                         /\ orders'[newid] =
                               [orders[id] EXCEPT
                                   !.id = newid, !.status = "open",
                                   !.price = arg[t].price,
                                   !.amount = IF arg[t].amount # undefinedNum
                                              THEN arg[t].amount ELSE @]
                         /\ \A k \in DOMAIN orders \ {id, newid} : orders'[k] = orders[k]
              /\ (pc[t] = "editOrder:response" /\ pc'[t] = "editOrder:parse") =>
                    id \notin DOMAIN orders /\ orders' = orders
              /\ (pc[t] = "editOrder:parse" /\ pc'[t] = "idle") =>
                    /\ DOMAIN orders' = DOMAIN orders \cup {newid}
                    /\ orders'[newid].id = newid
                    /\ \A k \in DOMAIN orders \ {newid} : orders'[k] = orders[k]]_vars

\* an editOrder has moved a cached order from rate 1 to rate 2
C25_Witness ==
    /\ ret.op = "editOrder" /\ ret.raised = ""
    /\ \E newid \in ret.ids : \E id \in DOMAIN orders :
          /\ orders[id].status = "canceled" /\ orders[id].price = 1
          /\ newid # id /\ newid \in DOMAIN book /\ id \notin DOMAIN book
          /\ orders[newid].status = "open" /\ orders[newid].price = 2
          /\ orders[newid].symbol = orders[id].symbol

\* C26: fetchOrders called with a symbol S changes only cached orders of symbol S:
\* a cached order with status open and another symbol still has status open and
\* the same filled, remaining and cost after the call.
C26_OtherSymbolsUntouched ==
    [][\A t \in Tasks :
          (/\ pc[t] = "fetchOrders:response" /\ pc'[t] = "idle"
           /\ arg[t].symbol # undefinedStr) =>
              \A id \in DOMAIN orders :
                  (orders[id].status = "open" /\ orders[id].symbol # arg[t].symbol) =>
                      /\ orders'[id].status = "open"
                      /\ orders'[id].filled = orders[id].filled
                      /\ orders'[id].remaining = orders[id].remaining
                      /\ orders'[id].cost = orders[id].cost]_vars

\* C27: cryptopia fetchOrders called with a symbol S transitions to closed only
\* cached open orders whose symbol is S and that the response does not list; a
\* cached open order of another symbol is left unchanged and is not part of the
\* returned list.
C27_CryptopiaClosesOwnSymbol ==
    (output # NotRun /\ input.symbol # undefinedStr) =>
        \A id \in DOMAIN input.cache :
            LET before == input.cache[id]
                after == output.result.orders[id]
            IN  /\ (before.status # "closed" /\ after.status = "closed") =>
                      /\ before.status = "open"
                      /\ before.symbol = input.symbol
                      /\ id \notin DOMAIN input.listing
                /\ (before.status = "open" /\ before.symbol # input.symbol) =>
                      /\ after = before
                      /\ id \notin output.result.result

\* a call with a symbol has closed the open order of that symbol it was not shown
\* and has met an open order of another symbol
C27_Witness ==
    /\ output # NotRun
    /\ input.symbol # undefinedStr
    /\ \E id, other \in DOMAIN input.cache :
          /\ input.cache[id].status = "open" /\ input.cache[id].symbol = input.symbol
          /\ output.result.orders[id].status = "closed"
          /\ input.cache[other].status = "open"
          /\ input.cache[other].symbol # input.symbol
          /\ output.result.orders[other].status = "open"

\* C28: when createOrder completes and caches a new open order while a fetchOrders
\* of the same instance is suspended between its open-orders request and the
\* reconcile pass, that pass does not mark the new order closed because its older
\* response does not list it: the order, open on the exchange, is not cached as
\* closed.
C28_NewOrderSurvivesOlderListing ==
    [][\A t \in Tasks : \A id \in DOMAIN orders :
          (/\ Reconciles(t)
           /\ ret.op = "createOrder" /\ ret.raised = "" /\ id \in ret.ids
           /\ id \notin Listed(t)
           /\ arg[t].symbol \in {undefinedStr, orders[id].symbol}
           /\ orders[id].status = "open"
           /\ id \in DOMAIN book /\ ~book[id].pending) =>
              orders'[id].status # "closed"]_vars

\* C29: fetchOrderStatus (id) returns the status the cache holds for id after the
\* reconcile pass it triggers: open for an order cached as open, closed for one
\* cached as closed, canceled for one cached as canceled.
C29_StatusAsCached ==
    [][\A t \in Tasks :
          (/\ pc[t] = "fetchOrderStatus:response" /\ pc'[t] = "idle"
           /\ arg[t].id \in DOMAIN orders'
           /\ orders'[arg[t].id].status \in Statuses) =>
              ret'.status = orders'[arg[t].id].status]_vars

\* C30: binance fetchOHLCV terminates for every finite limit, also when the
\* exchange has fewer than limit candles after since and a page request returns
\* an empty list.
C30_FetchOHLCVTerminates == <>(output # NotRun /\ output.pc = "returned")

====
